---- MODULE Spec2Model ----
(***************************************************************************)
(* Model of src/main.py: the CameraManager session (start / stop /         *)
(* get_frame / detect_objects / log_detection / get_status) driven by      *)
(* concurrent request threads.  Control threads call start(index) and      *)
(* stop(); viewer threads call get_frame() (the /video_feed loop).         *)
(* Every step of a method that reads or writes shared state is one action; *)
(* start and stop hold self.lock for their whole body, get_frame and       *)
(* log_detection take no lock.                                             *)
(***************************************************************************)
EXTENDS Integers, Sequences, FiniteSets, TLC

\* ---------------------------------------------------------------- bounds
\* Frames successfully read from the device per run.
MaxFrames == 2
\* Boxes the detection model reports for one frame.
MaxBoxes == 2

\* ------------------------------------------------------------- constants
\* Python's None in the camera field; a capture object is [dev, opened].
None == [dev |-> -1, opened |-> FALSE]
\* logs[-1000:], the cap of detection_log.json.
LogCap == 1000

Controllers == {"c1", "c2"}
Viewers == {"v1", "v2"}
\* camera_index values a /control request carries.
Indices == {0, 1}
\* The lock is free.
NoOwner == "free"

\* Sizes of the detection_log.json a previous run of the program left behind
\* (0: the file does not exist yet).
PriorSizes == {0, LogCap - 1}

\* for i in range(4): the indices get_available_cameras probes.
ScanRange == 4
Probed == 0..(ScanRange - 1)

\* What probing an index can do: cv2.VideoCapture(i) raises; the capture does
\* not open; it opens and read() gives no frame; it opens and read() raises;
\* it opens and read() gives a frame.
Behaviours == {"throws", "absent", "blank", "read_throws", "ok"}

VARIABLES
    camera,                 \* self.camera: None or a capture object
    is_running,             \* self.is_running
    lock,                   \* owner of self.lock
    detection_count,        \* self.detection_count
    current_camera_index,   \* self.current_camera_index
    YOLO_AVAILABLE,         \* module flag set once at import
    orphans,                \* open capture objects self.camera let go of
    file,                   \* detection_log.json on disk
    pc,                     \* position of every thread in its current call
    arg,                    \* camera_index of the start in progress
    rd,                     \* capture object a viewer's read() runs on
    frame,                  \* frame a viewer holds: [id, dev, drawn]
    todo,                   \* boxes of result.boxes still to process
    logs,                   \* local list `logs` of log_detection
    tmp,                    \* value loaded by detection_count += 1
    result,                 \* dict start/stop returned to control()
    ret,                    \* value get_frame returned to generate()
    frames,                 \* frames read so far (numbers the frames)
    produced,               \* log_detection calls so far
    written,                \* events whose json.dump completed, in that order
    sinceRelease,           \* what each thread's start did since the last release()
    lastTransition,         \* last completed state transition of the session
    prior,                  \* events in the log file when the process started
    devices,                \* what each index does when get_available_cameras probes it
    scan                    \* the get_available_cameras call: position, i, list

vars == << camera, is_running, lock, detection_count, current_camera_index,
           YOLO_AVAILABLE, orphans, file, pc, arg, rd, frame, todo, logs, tmp,
           result, ret, frames, produced, written, sinceRelease, lastTransition,
           prior, devices, scan >>

scanVars == << devices, scan >>

sessionVars == << camera, is_running, detection_count, current_camera_index,
                  orphans, file >>
viewerVars == << rd, frame, todo, logs, tmp, ret, frames, produced, written >>

\* ----------------------------------------------------- the detection log
\* A list of events is kept as [old, new]: the last `old` events of the file
\* the process found at startup, followed by the events of `new`.  Appends go
\* to the back and logs[-1000:] drops from the front, so every list the
\* program builds has this shape.
EmptyLogs == [old |-> 0, new |-> << >>]

LogLen(l) == l.old + Len(l.new)

\* logs.append(new_log)
LogAppend(l, e) == [l EXCEPT !.new = Append(@, e)]

\* logs[-n:] for n > 0
LastN(l, n) ==
    IF LogLen(l) <= n THEN l
    ELSE IF Len(l.new) >= n
         THEN [old |-> 0, new |-> SubSeq(l.new, Len(l.new) - n + 1, Len(l.new))]
         ELSE [old |-> n - Len(l.new), new |-> l.new]

\* if len(logs) > 1000: logs = logs[-1000:]
Truncate(l) == IF LogLen(l) > LogCap THEN LastN(l, LogCap) ELSE l

\* detection_log.json: absent, holding a JSON list, or truncated/partial
\* (open(..., 'w') empties it before json.dump fills it).
NoFile == [exists |-> FALSE, valid |-> FALSE, content |-> EmptyLogs]
JsonFile(l) == [exists |-> TRUE, valid |-> TRUE, content |-> l]
BrokenFile == [exists |-> TRUE, valid |-> FALSE, content |-> EmptyLogs]

\* ----------------------------------------------------------- return values
\* The dict start/stop return, with what the call did to the device.
Result(success, message) == [success |-> success, message |-> message]

NoResult == Result(FALSE, "")

\* What the client gets when control() raises or request.get_json() aborts:
\* the framework's error page with an HTTP status, not the JSON dict.
ErrorPage(status) == [status |-> status]

NoFrame == [id |-> 0, dev |-> 0, drawn |-> 0, failed |-> FALSE]

\* What a get_frame call handed back: the value, the line of the return
\* statement, and the exception `except Exception: pass` swallowed on the way.
Returned(value, line, swallowed) ==
    [value |-> value, line |-> line, swallowed |-> swallowed]
NoReturn == Returned("none", 0, "no")
NoRead == [dev |-> -1, wasOpen |-> FALSE]

\* Capture objects that hold a device open.
OpenCount == orphans + (IF camera.opened THEN 1 ELSE 0)

\* cv2.VideoCapture(index), opened or not
VideoCapture(index, ok) == [dev |-> index, opened |-> ok]

\* CameraManager.get_status
get_status ==
    [camera_on |-> is_running,
     current_idx |-> current_camera_index,
     yolo_available |-> YOLO_AVAILABLE,
     detection_count |-> detection_count]

\* available_cameras = [] and the loop not yet entered.
NoScan == [pc |-> "idle", i |-> 0, available_cameras |-> << >>, unreleased |-> 0]

\* ------------------------------------------------------------------- Init
\* camera_manager = CameraManager() and the module flags.
InitManager ==
    /\ camera = None
    /\ is_running = FALSE
    /\ lock = NoOwner
    /\ detection_count = 0
    /\ current_camera_index = 0
    /\ YOLO_AVAILABLE \in BOOLEAN
    /\ orphans = 0
    /\ prior \in PriorSizes
    /\ file = IF prior = 0 THEN NoFile ELSE JsonFile([old |-> prior, new |-> << >>])
    /\ pc = [p \in Controllers \cup Viewers |-> "idle"]
    /\ arg = [p \in Controllers |-> 0]
    /\ rd = [v \in Viewers |-> NoRead]
    /\ frame = [v \in Viewers |-> NoFrame]
    /\ todo = [v \in Viewers |-> 0]
    /\ logs = [v \in Viewers |-> EmptyLogs]
    /\ tmp = [v \in Viewers |-> 0]
    /\ result = [p \in Controllers |-> NoResult]
    /\ ret = [v \in Viewers |-> NoReturn]
    /\ frames = 0
    /\ produced = 0
    /\ written = << >>
    /\ sinceRelease = [p \in Controllers |-> "none"]
    /\ lastTransition = "none"

\* Nobody asks for the camera list: no index answers a probe.
Init ==
    /\ InitManager
    /\ devices = [i \in Probed |-> "absent"]
    /\ scan = NoScan

\* ------------------------------------------------- CameraManager.start
\* start without the `if self.is_running` early return.
StartEnter_NoRunningCheck(p, idx) ==
    /\ pc[p] = "idle"
    /\ lock = NoOwner
    /\ lock' = p
    /\ pc' = [pc EXCEPT ![p] = "start_open"]
    /\ arg' = [arg EXCEPT ![p] = idx]
    /\ UNCHANGED << sessionVars, viewerVars, YOLO_AVAILABLE, result,
                    sinceRelease, lastTransition, prior, scanVars >>

\* start that records the requested index before the early return.
StartEnter_RecordsIndex(p, idx) ==
    /\ pc[p] = "idle"
    /\ lock = NoOwner
    /\ current_camera_index' = idx
    /\ IF is_running
       THEN /\ result' = [result EXCEPT ![p] = Result(TRUE, "already running")]
            /\ sinceRelease' = [sinceRelease EXCEPT ![p] =
                    IF @ = "none" THEN "noop" ELSE @]
            /\ pc' = [pc EXCEPT ![p] = "respond"]
            /\ arg' = [arg EXCEPT ![p] = idx]
            /\ UNCHANGED lock
       ELSE /\ lock' = p
            /\ pc' = [pc EXCEPT ![p] = "start_open"]
            /\ arg' = [arg EXCEPT ![p] = idx]
            /\ UNCHANGED << result, sinceRelease >>
    /\ UNCHANGED << camera, is_running, detection_count, orphans, file,
                    viewerVars, YOLO_AVAILABLE, lastTransition, prior, scanVars >>

\* `with self.lock:` and the is_running test; a running session returns at once.
StartEnter(p, idx) ==
    /\ pc[p] = "idle"
    /\ lock = NoOwner
    /\ IF is_running
       THEN /\ result' = [result EXCEPT ![p] = Result(TRUE, "already running")]
            /\ sinceRelease' = [sinceRelease EXCEPT ![p] =
                    IF @ = "none" THEN "noop" ELSE @]
            /\ pc' = [pc EXCEPT ![p] = "respond"]
            /\ arg' = [arg EXCEPT ![p] = idx]
            /\ UNCHANGED lock
       ELSE /\ lock' = p
            /\ pc' = [pc EXCEPT ![p] = "start_open"]
            /\ arg' = [arg EXCEPT ![p] = idx]
            /\ UNCHANGED << result, sinceRelease >>
    /\ UNCHANGED << sessionVars, viewerVars, YOLO_AVAILABLE, lastTransition,
                    prior, scanVars >>

\* control() on a request that is no command.  An unknown action falls to the
\* else branch and gets the failure dict.  A JSON body that is no object
\* (null, a list) makes data.get raise AttributeError, which nothing catches.
\* A body that is no JSON makes request.get_json() abort the request or
\* return None, depending on the framework version and the content type.
Bodies == {"unknown_action", "no_object", "not_json"}

Answers(body) ==
    CASE body = "unknown_action" -> {Result(FALSE, "invalid request")}
      [] body = "no_object" -> {ErrorPage(500)}
      [] body = "not_json" -> {ErrorPage(400), ErrorPage(415), ErrorPage(500)}

ControlMalformed(p) ==
    /\ pc[p] = "idle"
    /\ \E body \in Bodies : \E r \in Answers(body) :
            result' = [result EXCEPT ![p] = r]
    /\ pc' = [pc EXCEPT ![p] = "malformed"]
    /\ UNCHANGED << sessionVars, lock, arg, viewerVars, YOLO_AVAILABLE,
                    sinceRelease, lastTransition, prior, scanVars >>

\* control(): return jsonify(result), or the error page goes out; the
\* request thread is free again.
Respond(p) ==
    /\ pc[p] \in {"respond", "malformed"}
    /\ result' = [result EXCEPT ![p] = NoResult]
    /\ arg' = [arg EXCEPT ![p] = 0]
    /\ pc' = [pc EXCEPT ![p] = "idle"]
    /\ UNCHANGED << sessionVars, lock, viewerVars, YOLO_AVAILABLE,
                    sinceRelease, lastTransition, prior, scanVars >>

\* A failed open that records the index before isOpened() is tested.
StartOpenFail_RecordsIndex(p) ==
    /\ pc[p] = "start_open"
    /\ camera' = VideoCapture(arg[p], FALSE)
    /\ orphans' = orphans + (IF camera.opened THEN 1 ELSE 0)
    /\ current_camera_index' = arg[p]
    /\ result' = [result EXCEPT ![p] = Result(FALSE, "connect failed")]
    /\ lock' = NoOwner
    /\ pc' = [pc EXCEPT ![p] = "respond"]
    /\ UNCHANGED << is_running, detection_count, file, arg, viewerVars,
                    YOLO_AVAILABLE, sinceRelease, lastTransition, prior, scanVars >>

\* self.camera = cv2.VideoCapture(camera_index); isOpened() is False:
\* the failure dict is returned and the lock released.
StartOpenFail(p) ==
    /\ pc[p] = "start_open"
    /\ camera' = VideoCapture(arg[p], FALSE)
    /\ orphans' = orphans + (IF camera.opened THEN 1 ELSE 0)
    /\ result' = [result EXCEPT ![p] = Result(FALSE, "connect failed")]
    /\ lock' = NoOwner
    /\ pc' = [pc EXCEPT ![p] = "respond"]
    /\ UNCHANGED << is_running, detection_count, current_camera_index, file,
                    arg, viewerVars, YOLO_AVAILABLE, sinceRelease,
                    lastTransition, prior, scanVars >>

\* self.camera = cv2.VideoCapture(camera_index); isOpened() is True, the
\* camera.set(...) calls follow.
StartOpenOk(p) ==
    /\ pc[p] = "start_open"
    /\ camera' = VideoCapture(arg[p], TRUE)
    /\ orphans' = orphans + (IF camera.opened THEN 1 ELSE 0)
    /\ sinceRelease' = [sinceRelease EXCEPT ![p] = "opened"]
    /\ pc' = [pc EXCEPT ![p] = "start_run"]
    /\ UNCHANGED << is_running, detection_count, current_camera_index, file,
                    lock, arg, result, viewerVars, YOLO_AVAILABLE,
                    lastTransition, prior, scanVars >>

\* self.is_running = True
StartSetRunning(p) ==
    /\ pc[p] = "start_run"
    /\ is_running' = TRUE
    /\ pc' = [pc EXCEPT ![p] = "start_idx"]
    /\ UNCHANGED << camera, detection_count, current_camera_index, orphans,
                    file, lock, arg, result, viewerVars, YOLO_AVAILABLE,
                    sinceRelease, lastTransition, prior, scanVars >>

\* self.current_camera_index = camera_index; return success.
StartSetIndex(p) ==
    /\ pc[p] = "start_idx"
    /\ current_camera_index' = arg[p]
    /\ result' = [result EXCEPT ![p] = Result(TRUE, "started")]
    /\ lastTransition' = "start"
    /\ lock' = NoOwner
    /\ pc' = [pc EXCEPT ![p] = "respond"]
    /\ UNCHANGED << camera, is_running, detection_count, orphans, file, arg,
                    viewerVars, YOLO_AVAILABLE, sinceRelease, prior, scanVars >>

\* -------------------------------------------------- CameraManager.stop
\* stop without the `if not self.is_running` early return.
StopEnter_NoStoppedCheck(p) ==
    /\ pc[p] = "idle"
    /\ lock = NoOwner
    /\ lock' = p
    /\ is_running' = FALSE
    /\ pc' = [pc EXCEPT ![p] = "stop_release"]
    /\ UNCHANGED << camera, detection_count, current_camera_index, orphans,
                    file, arg, result, viewerVars, YOLO_AVAILABLE,
                    sinceRelease, lastTransition, prior, scanVars >>

\* `with self.lock:` and the is_running test; a stopped session returns at
\* once, a running one clears the flag.
StopEnter(p) ==
    /\ pc[p] = "idle"
    /\ lock = NoOwner
    /\ IF ~is_running
       THEN /\ result' = [result EXCEPT ![p] = Result(TRUE, "already stopped")]
            /\ pc' = [pc EXCEPT ![p] = "respond"]
            /\ UNCHANGED << lock, is_running >>
       ELSE /\ lock' = p
            /\ is_running' = FALSE
            /\ pc' = [pc EXCEPT ![p] = "stop_release"]
            /\ UNCHANGED result
    /\ UNCHANGED << camera, detection_count, current_camera_index, orphans,
                    file, arg, viewerVars, YOLO_AVAILABLE, sinceRelease,
                    lastTransition, prior, scanVars >>

\* stop that forgets camera.release().
StopRelease_NoRelease(p) ==
    /\ pc[p] = "stop_release"
    /\ pc' = [pc EXCEPT ![p] = "stop_clear"]
    /\ UNCHANGED << sessionVars, lock, arg, result, viewerVars, YOLO_AVAILABLE,
                    sinceRelease, lastTransition, prior, scanVars >>

\* if self.camera: self.camera.release()
StopRelease(p) ==
    /\ pc[p] = "stop_release"
    /\ IF camera # None
       THEN /\ camera' = [camera EXCEPT !.opened = FALSE]
            /\ sinceRelease' = [q \in Controllers |-> "none"]
       ELSE UNCHANGED << camera, sinceRelease >>
    /\ pc' = [pc EXCEPT ![p] = "stop_clear"]
    /\ UNCHANGED << is_running, detection_count, current_camera_index, orphans,
                    file, lock, arg, result, viewerVars, YOLO_AVAILABLE,
                    lastTransition, prior, scanVars >>

\* self.camera = None; return success.
StopClear(p) ==
    /\ pc[p] = "stop_clear"
    /\ camera' = None
    /\ orphans' = orphans + (IF camera.opened THEN 1 ELSE 0)
    /\ result' = [result EXCEPT ![p] = Result(TRUE, "stopped")]
    /\ lastTransition' = "stop"
    /\ lock' = NoOwner
    /\ pc' = [pc EXCEPT ![p] = "respond"]
    /\ UNCHANGED << is_running, detection_count, current_camera_index, file,
                    arg, viewerVars, YOLO_AVAILABLE, sinceRelease, prior, scanVars >>

\* --------------------------------------------- CameraManager.get_frame
\* What a get_frame call leaves behind when it returns `value`.
Return(v, r) ==
    /\ ret' = [ret EXCEPT ![v] = r]
    /\ pc' = [pc EXCEPT ![v] = "returned"]
    /\ rd' = [rd EXCEPT ![v] = NoRead]
    /\ frame' = [frame EXCEPT ![v] = NoFrame]

\* video_feed.generate(): the frame is yielded, or the loop sleeps 0.1 s on
\* None, and get_frame is called again.
Generate(v) ==
    /\ pc[v] = "returned"
    /\ ret' = [ret EXCEPT ![v] = NoReturn]
    /\ pc' = [pc EXCEPT ![v] = "idle"]
    /\ UNCHANGED << sessionVars, lock, arg, result, rd, frame, todo, logs, tmp,
                    frames, produced, written, YOLO_AVAILABLE, sinceRelease,
                    lastTransition, prior, scanVars >>

\* get_frame that tests only the handle, not is_running.
GfCheck_NoRunningTest(v) ==
    /\ pc[v] = "idle"
    /\ IF camera = None
       THEN Return(v, Returned("None", 121, "no"))
       ELSE /\ pc' = [pc EXCEPT ![v] = "gf_read"]
            /\ UNCHANGED << ret, rd, frame >>
    /\ UNCHANGED << sessionVars, lock, arg, result, todo, logs, tmp, frames,
                    produced, written, YOLO_AVAILABLE, sinceRelease,
                    lastTransition, prior, scanVars >>

\* if not self.is_running or self.camera is None: return None
\* (no lock is taken anywhere in get_frame)
GfCheck(v) ==
    /\ pc[v] = "idle"
    /\ IF ~is_running \/ camera = None
       THEN Return(v, Returned("None", 121, "no"))
       ELSE /\ pc' = [pc EXCEPT ![v] = "gf_read"]
            /\ UNCHANGED << ret, rd, frame >>
    /\ UNCHANGED << sessionVars, lock, arg, result, todo, logs, tmp, frames,
                    produced, written, YOLO_AVAILABLE, sinceRelease,
                    lastTransition, prior, scanVars >>

\* get_frame without its try/except: the AttributeError of None.read()
\* reaches the caller.
GfReadBegin_NoExcept(v) ==
    /\ pc[v] = "gf_read"
    /\ IF camera = None
       THEN Return(v, Returned("raised", 124, "no"))
       ELSE /\ rd' = [rd EXCEPT ![v] =
                    [dev |-> camera.dev, wasOpen |-> camera.opened]]
            /\ pc' = [pc EXCEPT ![v] = "gf_reading"]
            /\ UNCHANGED << ret, frame >>
    /\ UNCHANGED << sessionVars, lock, arg, result, todo, logs, tmp, frames,
                    produced, written, YOLO_AVAILABLE, sinceRelease,
                    lastTransition, prior, scanVars >>

\* self.camera.read() begins: the attribute is loaded again; on None the
\* AttributeError is swallowed by `except Exception` and None is returned.
GfReadBegin(v) ==
    /\ pc[v] = "gf_read"
    /\ IF camera = None
       THEN Return(v, Returned("None", 136, "AttributeError"))
       ELSE /\ rd' = [rd EXCEPT ![v] =
                    [dev |-> camera.dev, wasOpen |-> camera.opened]]
            /\ pc' = [pc EXCEPT ![v] = "gf_reading"]
            /\ UNCHANGED << ret, frame >>
    /\ UNCHANGED << sessionVars, lock, arg, result, todo, logs, tmp, frames,
                    produced, written, YOLO_AVAILABLE, sinceRelease,
                    lastTransition, prior, scanVars >>

\* read() returns (True, frame): only a capture that was open when the read
\* began can deliver one.
GfReadOk(v) ==
    /\ pc[v] = "gf_reading"
    /\ rd[v].wasOpen
    /\ frames < MaxFrames
    /\ frames' = frames + 1
    /\ frame' = [frame EXCEPT ![v] =
            [id |-> frames + 1, dev |-> rd[v].dev, drawn |-> 0, failed |-> FALSE]]
    /\ pc' = [pc EXCEPT ![v] = IF YOLO_AVAILABLE THEN "gf_detect" ELSE "gf_encode"]
    /\ UNCHANGED << sessionVars, lock, arg, result, rd, ret, todo, logs, tmp,
                    produced, written, YOLO_AVAILABLE, sinceRelease,
                    lastTransition, prior, scanVars >>

\* get_frame that takes a failed read for the end of the session.
GfReadFail_Stops(v) ==
    /\ pc[v] = "gf_reading"
    /\ Return(v, Returned("None", 126, "no"))
    /\ is_running' = FALSE
    /\ UNCHANGED << camera, detection_count, current_camera_index, orphans,
                    file, lock, arg, result, todo, logs, tmp, frames,
                    produced, written, YOLO_AVAILABLE, sinceRelease,
                    lastTransition, prior, scanVars >>

\* read() returns (False, None): `if not ret: return None`; or read() raises
\* and `except Exception: pass` leads to the last `return None`.
GfReadFail(v) ==
    /\ pc[v] = "gf_reading"
    /\ \E r \in {Returned("None", 126, "no"), Returned("None", 136, "error")} :
            Return(v, r)
    /\ UNCHANGED << sessionVars, lock, arg, result, todo, logs, tmp, frames,
                    produced, written, YOLO_AVAILABLE, sinceRelease,
                    lastTransition, prior, scanVars >>

\* ---------------------------------------- CameraManager.detect_objects
\* results = model(frame, conf=0.5, verbose=False) reports n boxes.
GfDetect(v) ==
    /\ pc[v] = "gf_detect"
    /\ \E n \in 0..MaxBoxes : todo' = [todo EXCEPT ![v] = n]
    /\ pc' = [pc EXCEPT ![v] = "gf_box"]
    /\ UNCHANGED << sessionVars, lock, arg, result, rd, frame, ret, logs, tmp,
                    frames, produced, written, YOLO_AVAILABLE, sinceRelease,
                    lastTransition, prior, scanVars >>

\* model(...) raises: `except: pass`, the frame is returned as it is.
GfDetectFail(v) ==
    /\ pc[v] = "gf_detect"
    /\ frame' = [frame EXCEPT ![v].failed = TRUE]
    /\ pc' = [pc EXCEPT ![v] = "gf_encode"]
    /\ UNCHANGED << sessionVars, lock, arg, result, rd, ret, todo, logs,
                    tmp, frames, produced, written, YOLO_AVAILABLE, sinceRelease,
                    lastTransition, prior, scanVars >>

\* One turn of `for box in result.boxes`: the box is drawn on the frame and
\* log_detection is called; after the last box the loop ends.
GfBox(v) ==
    /\ pc[v] = "gf_box"
    /\ IF todo[v] = 0
       THEN /\ pc' = [pc EXCEPT ![v] = "gf_encode"]
            /\ UNCHANGED << frame, produced >>
       ELSE /\ frame' = [frame EXCEPT ![v].drawn = @ + 1]
            /\ produced' = produced + 1
            /\ pc' = [pc EXCEPT ![v] = "log_load"]
    /\ UNCHANGED << sessionVars, lock, arg, result, rd, ret, todo, logs, tmp,
                    frames, written, YOLO_AVAILABLE, sinceRelease, lastTransition,
                    prior, scanVars >>

\* A box raises before log_detection is reached: the loop is abandoned.
GfBoxFail(v) ==
    /\ pc[v] = "gf_box"
    /\ todo[v] > 0
    /\ todo' = [todo EXCEPT ![v] = 0]
    /\ frame' = [frame EXCEPT ![v].failed = TRUE]
    /\ pc' = [pc EXCEPT ![v] = "gf_encode"]
    /\ UNCHANGED << sessionVars, lock, arg, result, rd, ret, logs, tmp, frames,
                    produced, written, YOLO_AVAILABLE, sinceRelease,
                    lastTransition, prior, scanVars >>

\* ----------------------------------------- CameraManager.log_detection
\* log_detection returns to the loop of detect_objects.
LogReturn(v) ==
    /\ todo' = [todo EXCEPT ![v] = @ - 1]
    /\ logs' = [logs EXCEPT ![v] = EmptyLogs]
    /\ tmp' = [tmp EXCEPT ![v] = 0]
    /\ pc' = [pc EXCEPT ![v] = "gf_box"]

\* The event log_detection builds for the box at hand.
new_log(v) ==
    [frame |-> frame[v].id, box |-> todo[v], dev |-> frame[v].dev,
     camera_idx |-> current_camera_index]

\* os.path.exists / json.load: the list on disk, [] without a file; a file
\* that is no JSON list raises and `except: pass` drops the event.
LogLoad(v) ==
    /\ pc[v] = "log_load"
    /\ IF file.exists /\ ~file.valid
       THEN /\ LogReturn(v)
       ELSE /\ logs' = [logs EXCEPT ![v] =
                    IF file.exists THEN file.content ELSE EmptyLogs]
            /\ pc' = [pc EXCEPT ![v] = "log_open"]
            /\ UNCHANGED << todo, tmp >>
    /\ UNCHANGED << sessionVars, lock, arg, result, rd, frame, ret, frames,
                    produced, written, YOLO_AVAILABLE, sinceRelease,
                    lastTransition, prior, scanVars >>

\* new_log is built, appended, the list cut to its last 1000, and
\* open(log_file, 'w') empties the file.
LogOpen(v) ==
    /\ pc[v] = "log_open"
    /\ logs' = [logs EXCEPT ![v] = Truncate(LogAppend(@, new_log(v)))]
    /\ file' = BrokenFile
    /\ pc' = [pc EXCEPT ![v] = "log_dump"]
    /\ UNCHANGED << camera, is_running, detection_count, current_camera_index,
                    orphans, lock, arg, result, rd, frame, ret, todo, tmp,
                    frames, produced, written, YOLO_AVAILABLE, sinceRelease,
                    lastTransition, prior, scanVars >>

\* json.dump and the close of the file: the list is on disk.
LogDump(v) ==
    /\ pc[v] = "log_dump"
    /\ file' = JsonFile(logs[v])
    /\ written' = Append(written, logs[v].new[Len(logs[v].new)])
    /\ pc' = [pc EXCEPT ![v] = "log_count"]
    /\ UNCHANGED << camera, is_running, detection_count, current_camera_index,
                    orphans, lock, arg, result, rd, frame, ret, todo, logs, tmp,
                    frames, produced, YOLO_AVAILABLE, sinceRelease, lastTransition,
                    prior, scanVars >>

\* json.dump on top of what another writer put there since this one emptied
\* the file: the two texts mix and the file is no JSON list.
LogDumpOver(v) ==
    /\ pc[v] = "log_dump"
    /\ file.valid
    /\ file' = BrokenFile
    /\ written' = Append(written, logs[v].new[Len(logs[v].new)])
    /\ pc' = [pc EXCEPT ![v] = "log_count"]
    /\ UNCHANGED << camera, is_running, detection_count, current_camera_index,
                    orphans, lock, arg, result, rd, frame, ret, todo, logs, tmp,
                    frames, produced, YOLO_AVAILABLE, sinceRelease, lastTransition,
                    prior, scanVars >>

\* The write raises (disk error): the file stays cut short and
\* `except: pass` skips the count.
LogDumpFail(v) ==
    /\ pc[v] = "log_dump"
    /\ file' = BrokenFile
    /\ LogReturn(v)
    /\ UNCHANGED << camera, is_running, detection_count, current_camera_index,
                    orphans, lock, arg, result, rd, frame, ret, frames,
                    produced, written, YOLO_AVAILABLE, sinceRelease,
                    lastTransition, prior, scanVars >>

\* self.detection_count += 1, the load of the attribute ...
LogCountLoad(v) ==
    /\ pc[v] = "log_count"
    /\ tmp' = [tmp EXCEPT ![v] = detection_count]
    /\ pc' = [pc EXCEPT ![v] = "log_store"]
    /\ UNCHANGED << sessionVars, lock, arg, result, rd, frame, ret, todo, logs,
                    frames, produced, written, YOLO_AVAILABLE, sinceRelease,
                    lastTransition, prior, scanVars >>

\* ... and the store of the sum; log_detection returns.
LogCountStore(v) ==
    /\ pc[v] = "log_store"
    /\ detection_count' = tmp[v] + 1
    /\ LogReturn(v)
    /\ UNCHANGED << camera, is_running, current_camera_index, orphans, file,
                    lock, arg, result, rd, frame, ret, frames, produced,
                    written, YOLO_AVAILABLE, sinceRelease, lastTransition, prior, scanVars >>

\* cv2.imencode('.jpg', ...): `if ret: return jpeg.tobytes()`; when ret is
\* False, or imencode raises and the exception is swallowed, `return None`.
GfEncode(v) ==
    /\ pc[v] = "gf_encode"
    /\ \E r \in {Returned("bytes", 133, "no"), Returned("None", 136, "no"),
                 Returned("None", 136, "error")} : Return(v, r)
    /\ UNCHANGED << sessionVars, lock, arg, result, todo, logs, tmp, frames,
                    produced, written, YOLO_AVAILABLE, sinceRelease,
                    lastTransition, prior, scanVars >>

\* ------------------------------------------------ get_available_cameras
\* available_cameras = [] and the first turn of `for i in range(4)`.
ScanBegin ==
    /\ scan.pc = "idle"
    /\ scan' = [NoScan EXCEPT !.pc = "loop"]
    /\ UNCHANGED << sessionVars, lock, pc, arg, result, viewerVars,
                    YOLO_AVAILABLE, sinceRelease, lastTransition, prior, devices >>

\* One turn of the loop that appends the index as soon as the capture opens.
ScanProbe_NoRead ==
    /\ scan.pc = "loop"
    /\ scan.i < ScanRange
    /\ scan' = [scan EXCEPT
            !.i = @ + 1,
            !.available_cameras =
                IF devices[scan.i] \in {"blank", "read_throws", "ok"}
                THEN Append(@, scan.i) ELSE @]
    /\ UNCHANGED << sessionVars, lock, pc, arg, result, viewerVars,
                    YOLO_AVAILABLE, sinceRelease, lastTransition, prior, devices >>

\* One turn of the loop: cap = cv2.VideoCapture(i); if it is open, one read;
\* the index is appended when the read gave a frame; cap.release().  An
\* exception anywhere ends the turn (`except: pass`), and one raised by
\* read() skips the release.
ScanProbe ==
    /\ scan.pc = "loop"
    /\ scan.i < ScanRange
    /\ scan' = [scan EXCEPT
            !.i = @ + 1,
            !.available_cameras =
                IF devices[scan.i] = "ok" THEN Append(@, scan.i) ELSE @,
            !.unreleased =
                IF devices[scan.i] = "read_throws" THEN @ + 1 ELSE @]
    /\ UNCHANGED << sessionVars, lock, pc, arg, result, viewerVars,
                    YOLO_AVAILABLE, sinceRelease, lastTransition, prior, devices >>

\* return available_cameras
ScanReturn ==
    /\ scan.pc = "loop"
    /\ scan.i = ScanRange
    /\ scan' = [scan EXCEPT !.pc = "returned"]
    /\ UNCHANGED << sessionVars, lock, pc, arg, result, viewerVars,
                    YOLO_AVAILABLE, sinceRelease, lastTransition, prior, devices >>

\* ------------------------------------------------------------------- Next
\* The control thread and the stream of the detection scenario.
Operators == {"c1"}
Watchers == {"v1"}

\* One control client and one viewer, the detector as loaded at import: every
\* path of get_frame, detect_objects and log_detection against every point
\* of start and stop.
Next ==
    \/ \E p \in Operators, idx \in Indices : StartEnter(p, idx)
    \/ \E p \in Operators : Respond(p)
    \/ \E p \in Operators : StartOpenFail(p)
    \/ \E p \in Operators : StartOpenOk(p)
    \/ \E p \in Operators : StartSetRunning(p)
    \/ \E p \in Operators : StartSetIndex(p)
    \/ \E p \in Operators : StopEnter(p)
    \/ \E p \in Operators : StopRelease(p)
    \/ \E p \in Operators : StopClear(p)
    \/ \E v \in Watchers : GfCheck(v)
    \/ \E v \in Watchers : GfReadBegin(v)
    \/ \E v \in Watchers : GfReadOk(v)
    \/ \E v \in Watchers : GfReadFail(v)
    \/ \E v \in Watchers : GfDetect(v)
    \/ \E v \in Watchers : GfDetectFail(v)
    \/ \E v \in Watchers : GfBox(v)
    \/ \E v \in Watchers : GfBoxFail(v)
    \/ \E v \in Watchers : LogLoad(v)
    \/ \E v \in Watchers : LogOpen(v)
    \/ \E v \in Watchers : LogDump(v)
    \/ \E v \in Watchers : LogDumpFail(v)
    \/ \E v \in Watchers : LogCountLoad(v)
    \/ \E v \in Watchers : LogCountStore(v)
    \/ \E v \in Watchers : GfEncode(v)
    \/ \E v \in Watchers : Generate(v)

Spec == Init /\ [][Next]_vars

\* Two viewers of a session that is started and left on, with a device, a
\* detector and a disk that do not fail: the viewers' log_detection calls
\* interleave freely.
InitRace ==
    /\ Init
    /\ YOLO_AVAILABLE = TRUE

NextRace ==
    \/ \E p \in Operators : StartEnter(p, 0)
    \/ \E p \in Operators : Respond(p)
    \/ \E p \in Operators : StartOpenOk(p)
    \/ \E p \in Operators : StartSetRunning(p)
    \/ \E p \in Operators : StartSetIndex(p)
    \/ \E v \in Viewers : GfCheck(v)
    \/ \E v \in Viewers : GfReadBegin(v)
    \/ \E v \in Viewers : GfReadOk(v)
    \/ \E v \in Viewers : GfDetect(v)
    \/ \E v \in Viewers : GfBox(v)
    \/ \E v \in Viewers : LogLoad(v)
    \/ \E v \in Viewers : LogOpen(v)
    \/ \E v \in Viewers : LogDump(v)
    \/ \E v \in Viewers : LogDumpOver(v)
    \/ \E v \in Viewers : LogCountLoad(v)
    \/ \E v \in Viewers : LogCountStore(v)
    \/ \E v \in Viewers : GfEncode(v)
    \/ \E v \in Viewers : Generate(v)

SpecRace == InitRace /\ [][NextRace]_vars

\* Two control clients and two viewers on a process whose model failed to
\* load (YOLO_AVAILABLE False): frames pass through get_frame undetected.
InitControl ==
    /\ Init
    /\ YOLO_AVAILABLE = FALSE
    /\ prior = 0

NextControl ==
    \/ \E p \in Controllers, idx \in Indices : StartEnter(p, idx)
    \/ \E p \in Controllers : Respond(p)
    \/ \E p \in Controllers : StartOpenFail(p)
    \/ \E p \in Controllers : StartOpenOk(p)
    \/ \E p \in Controllers : StartSetRunning(p)
    \/ \E p \in Controllers : StartSetIndex(p)
    \/ \E p \in Controllers : StopEnter(p)
    \/ \E p \in Controllers : StopRelease(p)
    \/ \E p \in Controllers : StopClear(p)
    \/ \E v \in Viewers : GfCheck(v)
    \/ \E v \in Viewers : GfReadBegin(v)
    \/ \E v \in Viewers : GfReadOk(v)
    \/ \E v \in Viewers : GfReadFail(v)
    \/ \E v \in Viewers : GfEncode(v)
    \/ \E v \in Viewers : Generate(v)

SpecControl == InitControl /\ [][NextControl]_vars

\* One get_available_cameras call (the /cameras route, or the scan at
\* startup) over every combination of what the four indices do.
InitScan ==
    /\ InitManager
    /\ YOLO_AVAILABLE = FALSE
    /\ prior = 0
    /\ devices \in [Probed -> Behaviours]
    /\ scan = NoScan

NextScan ==
    \/ ScanBegin
    \/ ScanProbe
    \/ ScanReturn

SpecScan == InitScan /\ [][NextScan]_vars

\* The /control route alone: two clients send commands and malformed
\* requests, nobody watches the stream.
NextRequests ==
    \/ \E p \in Controllers, idx \in Indices : StartEnter(p, idx)
    \/ \E p \in Controllers : ControlMalformed(p)
    \/ \E p \in Controllers : Respond(p)
    \/ \E p \in Controllers : StartOpenFail(p)
    \/ \E p \in Controllers : StartOpenOk(p)
    \/ \E p \in Controllers : StartSetRunning(p)
    \/ \E p \in Controllers : StartSetIndex(p)
    \/ \E p \in Controllers : StopEnter(p)
    \/ \E p \in Controllers : StopRelease(p)
    \/ \E p \in Controllers : StopClear(p)

SpecRequests == InitControl /\ [][NextRequests]_vars

\* ------------------------------------------------------------ properties
\* No start or stop is inside its locked section.
Quiescent == lock = NoOwner

\* No log_detection call is under way.
LogPcs == {"log_load", "log_open", "log_dump", "log_count", "log_store"}
NoLogging == \A v \in Viewers : pc[v] \notin LogPcs

\* C1: between start/stop calls, the camera field is non-null if and only if
\* the session is running (is_running).
C1_HandleIffRunning == Quiescent => ((camera # None) <=> is_running)

\* C2: the capture object is never used by two callers at once: no two
\* get_frame reads overlap on it, and stop never calls release() while a
\* get_frame read on it is in flight.
C2_MutualExclusion ==
    [][ /\ Cardinality({v \in Viewers : pc'[v] = "gf_reading"}) <= 1
        /\ \A p \in Controllers :
              StopRelease(p) => \A v \in Viewers : pc[v] # "gf_reading" ]_vars

\* C3: at most one capture object holds a device open at any time; of the
\* start calls made since the last release exactly one opened a device, and
\* every other one found the session running and did nothing.
C3_AtMostOneOpen ==
    /\ OpenCount <= 1
    /\ (\E p \in Controllers : sinceRelease[p] # "none") =>
          /\ Cardinality({p \in Controllers : sinceRelease[p] = "opened"}) = 1
          /\ OpenCount = 1

\* C3 witness: start(0) and start(1) from two clients, one opened its device
\* and the other returned "already running".
C3_Witness ==
    /\ sinceRelease["c1"] = "opened"
    /\ sinceRelease["c2"] = "noop"
    /\ pc["c2"] = "respond"
    /\ result["c2"] = Result(TRUE, "already running")
    /\ arg["c2"] # camera.dev
    /\ camera.opened

\* C4: between start/stop calls a device is held open if and only if the
\* last transition applied was a successful start (no stop after it).
C4_OpenIffLastStart ==
    Quiescent => /\ (OpenCount > 0) <=> (lastTransition = "start")
                 /\ camera.opened <=> (lastTransition = "start")

\* C4 witness: a start succeeded, a stop followed, and the device is closed.
C4_Witness ==
    /\ Quiescent
    /\ lastTransition = "stop"
    /\ OpenCount = 0
    /\ \E p \in Controllers :
          pc[p] = "respond" /\ result[p] = Result(TRUE, "stopped")

\* C5: a start call that finds the session running returns success at once and
\* leaves the capture object, the running flag and the recorded index as they
\* were, whatever index it asked for.
C5_StartWhileRunningNoop ==
    [][ \A p \in Controllers, idx \in Indices :
          (StartEnter(p, idx) /\ is_running) =>
              /\ result'[p].success
              /\ pc'[p] = "respond"
              /\ UNCHANGED << camera, is_running, current_camera_index,
                              orphans, lock >> ]_vars

\* C5 witness: a start for another index than the running one has returned
\* "already running".
C5_Witness ==
    \E p \in Controllers :
        /\ pc[p] = "respond"
        /\ result[p] = Result(TRUE, "already running")
        /\ is_running
        /\ arg[p] # current_camera_index
        /\ arg[p] # camera.dev

\* C6: a stop call that finds the session stopped returns success at once,
\* without reaching release(), and leaves the session as it was.
C6_StopWhileStoppedNoop ==
    [][ \A p \in Controllers :
          (StopEnter(p) /\ ~is_running) =>
              /\ result'[p].success
              /\ pc'[p] = "respond"
              /\ UNCHANGED << camera, is_running, current_camera_index,
                              orphans, detection_count, file, lock >> ]_vars

\* C6 witness: stop has returned "already stopped" on a session whose last
\* start failed to open its device.
C6_Witness ==
    \E p \in Controllers :
        /\ pc[p] = "respond"
        /\ result[p] = Result(TRUE, "already stopped")
        /\ ~is_running
        /\ camera # None

\* C7: a start whose device open fails returns failure with a message, and
\* leaves the session stopped and the recorded index as it was.
C7_FailedStartStaysStopped ==
    [][ \A p \in Controllers :
          StartOpenFail(p) =>
              /\ ~result'[p].success
              /\ result'[p].message # ""
              /\ ~is_running /\ ~is_running'
              /\ current_camera_index' = current_camera_index ]_vars

\* C7 witness: a start for an index other than the recorded one has failed.
C7_Witness ==
    \E p \in Controllers :
        /\ pc[p] = "respond"
        /\ result[p] = Result(FALSE, "connect failed")
        /\ arg[p] # current_camera_index
        /\ ~is_running

\* Frame numbers never go down along a list of events.
FramesAscending(q) ==
    \A i, j \in 1..Len(q) : i < j => q[i].frame <= q[j].frame

Range(q) == {q[i] : i \in 1..Len(q)}

\* C8: whenever the log file holds a list and no write is under way, every
\* event log_detection wrote is in it, in the order the frames were read.
C8_LogInFrameOrder ==
    (NoLogging /\ file.exists /\ file.valid) =>
        /\ Range(written) \subseteq Range(file.content.new)
        /\ FramesAscending(file.content.new)

\* C9: once the get_frame calls that produced them have returned, the
\* detection_count of get_status equals the number of detection events.
C9_CountEqualsEvents ==
    (\A v \in Viewers : pc[v] \in {"idle", "returned"}) =>
        get_status.detection_count = produced

\* C10: whenever the log file holds a list and no write is under way, it
\* holds at most 1000 events, and once 1000 or more have been written they
\* are the last 1000 written, in the order they were written.
C10_LastThousand ==
    (NoLogging /\ file.exists /\ file.valid) =>
        /\ LogLen(file.content) <= LogCap
        /\ (prior + Len(written) >= LogCap) =>
              file.content = LastN([old |-> prior, new |-> written], LogCap)

\* C11: every get_frame call hands back encoded bytes or None and never
\* raises, whatever failed on the way (the read, the detector, the log, the
\* encoder, or the handle that stop() cleared after the running check).
C11_NeverRaises ==
    \A v \in Viewers :
        pc[v] = "returned" => ret[v].value \in {"bytes", "None"}

\* A call that passed the running check, found the handle cleared by stop()
\* and came back with None.
C11_Witness ==
    \E v \in Viewers :
        /\ pc[v] = "returned"
        /\ ret[v] = Returned("None", 136, "AttributeError")
        /\ camera = None
        /\ lastTransition = "stop"

\* C12: a get_frame call on a session that is not running returns None at
\* once, opens no device, does not take the lock and changes no session state.
C12_StoppedGetFrame ==
    [][ \A v \in Viewers :
            (pc[v] = "idle" /\ pc'[v] # "idle" /\ ~is_running) =>
                /\ pc'[v] = "returned"
                /\ ret'[v] = Returned("None", 121, "no")
                /\ OpenCount' = OpenCount
                /\ UNCHANGED << sessionVars, lock >> ]_vars

\* A call on the stopped session has returned None from the first test.
C12_Witness ==
    \E v \in Viewers :
        /\ pc[v] = "returned"
        /\ ret[v] = Returned("None", 121, "no")
        /\ ~is_running
        /\ camera = None
        /\ lock = NoOwner

\* C13: a device read that fails makes get_frame return None and leaves the
\* session as it was: still running, same handle, same index.
C13_FailedReadKeepsSession ==
    [][ \A v \in Viewers :
            (pc[v] = "gf_reading" /\ pc'[v] = "returned") =>
                /\ ret'[v].value = "None"
                /\ UNCHANGED << camera, is_running, current_camera_index,
                                orphans >> ]_vars

\* After a frame was delivered, a later read on the running session failed
\* and the call returned None from `if not ret`.
C13_Witness ==
    \E v \in Viewers :
        /\ pc[v] = "returned"
        /\ ret[v] = Returned("None", 126, "no")
        /\ frames >= 1
        /\ is_running
        /\ camera.opened
        /\ lock = NoOwner

\* C14: a malformed control request (a body that is no JSON or holds no JSON
\* object, or an unknown action) is answered with the failure dict
\* {success: false, message}, not with a server error.
C14_MalformedAnswered ==
    \A p \in Controllers :
        pc[p] = "malformed" =>
            /\ DOMAIN result[p] = {"success", "message"}
            /\ ~result[p].success
            /\ result[p].message # ""

\* The entries of a list grow strictly from left to right.
Ascending(q) == \A i, j \in 1..Len(q) : i < j => q[i] < q[j]

\* C15: get_available_cameras returns, in ascending order, exactly the
\* indices in 0..3 whose device opens and yields one frame; an index that
\* does not open, gives no frame or throws is skipped, and the list is empty
\* when there is none.
C15_ScanResult ==
    scan.pc = "returned" =>
        /\ Ascending(scan.available_cameras)
        /\ Range(scan.available_cameras) = {i \in Probed : devices[i] = "ok"}

\* Only index 1 has a working device; index 0 throws, 2 does not open, 3
\* opens without a frame: the scan returned [1].
C15_Witness ==
    /\ scan.pc = "returned"
    /\ devices = (0 :> "throws") @@ (1 :> "ok") @@ (2 :> "absent") @@ (3 :> "blank")
    /\ scan.available_cameras = << 1 >>

\* C16: detection_count never decreases in any step, whatever the viewers
\* and start/stop cycles do concurrently.
C16_CountMonotonic ==
    [][ detection_count' >= detection_count ]_vars

\* C17: when the detector fails on a frame, at the model call or at any box
\* of its results, the frame goes on to the encoder unannotated and no
\* detection event of that frame has been logged or counted.
C17_FailedDetectionLeavesNothing ==
    \A v \in Viewers :
        (pc[v] = "gf_encode" /\ frame[v].failed) =>
            /\ frame[v].drawn = 0
            /\ \A i \in 1..Len(written) : written[i].frame # frame[v].id

\* C18: whenever get_status() reports camera_on, the current_idx it reports
\* is the index of the device that is open, also while a start() is under
\* way in another thread.
C18_StatusIndexIsOpenDevice ==
    get_status.camera_on =>
        /\ camera.opened
        /\ get_status.current_idx = camera.dev

\* C19: every logged detection event carries as camera_idx the index of the
\* device its frame was read from, whatever stop() and start(other index)
\* do in between.
C19_EventCarriesFrameDevice ==
    \A i \in 1..Len(written) : written[i].camera_idx = written[i].dev

\* C20: from the return of a stop() until a later start() turns the session
\* on again, no get_frame call returns an encoded frame and no detection
\* event is written, not even by a call that was under way when stop() began.
C20_NothingAfterStop ==
    [][ (lastTransition = "stop" /\ ~is_running) =>
            /\ written' = written
            /\ \A v \in Viewers :
                   (pc[v] # "returned" /\ pc'[v] = "returned") =>
                       ret'[v].value # "bytes" ]_vars

====
